---- MODULE Spec2Model ----
(***************************************************************************)
(* One call of Java_com_d3x_osqp_OsqpModel_run                             *)
(* (src/src/main/C/com_d3x_osqp_OsqpModel.c), followed step by step.       *)
(*                                                                         *)
(* The native heap is the set of live blocks, the foreign (Java) buffers   *)
(* are counted per array (Get... / Release... calls), and the calls made   *)
(* into the OSQP library are recorded in order in `trace`.  The library    *)
(* itself (osqp_setup, osqp_solve, osqp_cleanup, csc_matrix,               *)
(* triplet_to_csc, the log) is not part of the file: each of its functions *)
(* is an operator whose outcome is chosen by the caller of the operator    *)
(* from the outcomes its interface allows.                                 *)
(*                                                                         *)
(* Doubles are modelled as integers counting quarters (the double 1.5 is   *)
(* 6), so that rounding has cases that are not ties.                       *)
(***************************************************************************)
EXTENDS Integers, Sequences, FiniteSets, TLC

\* ------------------------------------------------------------ bounds

\* numVar and numDual range over 1..MaxDim; the output buffers hold MaxDim entries.
MaxDim == 2
\* Buffer and solution entries range over 0..MaxVal.
MaxVal == 1

Vals == 0 .. MaxVal
Dims == 1 .. MaxDim

\* --------------------------------------------------- program constants

SETUP_ERROR == -1
SizeofLong == 8
SizeofDouble == 8

\* Status codes of the library (info->status_val).
OSQP_SOLVED == 1
OSQP_MAX_ITER_REACHED == -2
OSQP_PRIMAL_INFEASIBLE == -3
OSQP_UNSOLVED == -10

StatusVals == {OSQP_SOLVED, OSQP_MAX_ITER_REACHED, OSQP_PRIMAL_INFEASIBLE}
\* "Setup error codes are positive integers."
SetupErrors == {1, 4}
\* What osqp_solve returns when it does not return 0.
SolveErrors == {-1, 1}

\* The widths a build of the library can have for c_int and c_float.
Widths == {4, 8}

\* The conversion made to a 16-bit unsigned type instead (a jchar).
ToJint_Unsigned16(x) == x % 65536

\* The (jint) conversion of a c_int status: the low 32 bits, two's complement,
\* computed on 16-bit halves (the upper half is taken modulo 2^16, then signed).
ToJint(x) ==
  LET hi == (x \div 65536) % 65536
      lo == x % 65536
  IN  (IF hi >= 32768 THEN hi - 65536 ELSE hi) * 65536 + lo

\* ------------------------------------------------------------- names

NULL == "NULL"

\* The Java arrays and strings whose elements the call acquires.
Buffers ==
  {"linObjCoeff", "linConLower", "linConUpper",
   "quadObjRowInd", "quadObjColInd", "quadObjCoeff",
   "linConRowInd", "linConColInd", "linConCoeff",
   "paramValues", "paramName", "logName"}

\* The native blocks of one call.
MatBlocks(mat) ==
  IF mat = "A" THEN {"A", "A.p", "A.i", "A.x"} ELSE {"P", "P.p", "P.i", "P.x"}
TripletOf(mat) == IF mat = "A" THEN "A.triplet" ELSE "P.triplet"

SettingNames ==
  {"RHO", "SIGMA", "ALPHA", "POLISH", "MAX_ITER",
   "EPS_ABS", "EPS_REL", "EPS_PRIM_INF", "EPS_DUAL_INF"}

\* The override lists a call is made with (names and values, same length).
ParamCases ==
  {[names |-> <<>>, values |-> <<>>],
   [names |-> <<"POLISH">>, values |-> <<0>>],
   [names |-> <<"FOO", "RHO">>, values |-> <<3, 1>>]}

VARIABLES
  pc,           \* the position of the call
  cIntSize,     \* sizeof(c_int) of the build
  cFloatSize,   \* sizeof(c_float) of the build
  numVar, numDual, logName, paramNames, paramValues,   \* arguments
  optPrimal, optDual,       \* the caller's output arrays
  optPrimal0, optDual0,     \* their contents before the call
  heap,         \* native blocks allocated and not freed
  acq, rel,     \* per Java buffer: Get... calls, Release... calls
  trace,        \* the library and c_free calls made, in order
  data,         \* OSQPData* data
  settings,     \* OSQPSettings* settings
  workspace,    \* OSQPWorkspace* workspace
  setupOut,     \* what osqp_setup did: the workspace left in work, the status returned
  solveRet,     \* what osqp_solve returned
  status,       \* c_int status
  ret,          \* the jint returned
  settingsIndex, \* paramIndex of the loop of d3x_create_settings (1-based), 0 outside it
  cscIn,        \* the arguments of a d3x_create_csc call followed on its own
  cscOut        \* the matrix that call returns

vars ==
  <<pc, cIntSize, cFloatSize, numVar, numDual, logName, paramNames, paramValues,
    optPrimal, optDual, optPrimal0, optDual0, heap, acq, rel, trace,
    data, settings, workspace, setupOut, solveRet, status, ret,
    settingsIndex, cscIn, cscOut>>

\* What no step of run changes: its arguments, and the state of the functions
\* followed on their own.
args == <<cIntSize, cFloatSize, numVar, numDual, logName, paramNames, paramValues,
          optPrimal0, optDual0, settingsIndex, cscIn, cscOut>>

\* ---------------------------------------------- the native machine

\* The part of the state the helper functions work on.
Machine == [heap |-> heap, acq |-> acq, rel |-> rel, trace |-> trace]

Get(m, b) == [m EXCEPT !.acq[b] = @ + 1]
Release(m, b) == [m EXCEPT !.rel[b] = @ + 1]
c_malloc(m, blocks) == [m EXCEPT !.heap = @ \cup blocks]
\* A read, write or free through pointer p: recorded in the trace as a fault when
\* p is not an allocated block (null, or already freed).
Use(m, p) ==
  IF p \in m.heap THEN m ELSE [m EXCEPT !.trace = Append(@, <<"fault", p>>)]
c_free(m, p) ==
  IF p = NULL THEN m
  ELSE LET m1 == Use(m, p)
       IN  [m1 EXCEPT !.heap = @ \ {p}, !.trace = Append(@, <<"c_free", p>>)]
Call(m, f) == [m EXCEPT !.trace = Append(@, <<f, "">>)]

Count(seq, e) == Cardinality({i \in 1 .. Len(seq) : seq[i] = e})
Calls(f) == Count(trace, <<f, "">>)
Pos(seq, e) == CHOOSE i \in 1 .. Len(seq) : seq[i] = e

\* ------------------------------------------------ the OSQP library

\* csc_matrix(nrow, ncol, nnz, Tx, Ti, Tj): a new shell around the caller's
\* arrays, or null when the allocation fails.
csc_matrix(m, mat, ok) == IF ok THEN c_malloc(m, {TripletOf(mat)}) ELSE m

\* triplet_to_csc(T, OSQP_NULL): a new matrix in newly allocated storage (the
\* shell and its column-pointer, row-index and value arrays), or null.
triplet_to_csc(m, mat, ok) == IF ok THEN c_malloc(m, MatBlocks(mat)) ELSE m

\* What one conversion can meet: both allocations succeed; csc_matrix returns
\* null and the store through it traps, or does not; triplet_to_csc returns null.
CscOutcomes == {"ok", "csc_matrix_null_trap", "csc_matrix_null_no_trap", "triplet_to_csc_null"}

\* A field of the settings record: the library's default, or a value assigned.
LibDefault == [lib |-> TRUE, v |-> 0]
Assigned(x) == [lib |-> FALSE, v |-> x]

osqp_set_default_settings(s) ==
  [s EXCEPT !.rho = LibDefault, !.sigma = LibDefault, !.alpha = LibDefault,
            !.polish = LibDefault, !.max_iter = LibDefault, !.eps_abs = LibDefault,
            !.eps_rel = LibDefault, !.eps_prim_inf = LibDefault,
            !.eps_dual_inf = LibDefault]

\* osqp_setup(&work, data, settings): the workspace it leaves in work and the
\* status it returns.  A problem without its matrices is rejected.
SetupOutcomes(d) ==
  {[work |-> w, status |-> e] : w \in {NULL, "work"}, e \in SetupErrors}
    \cup (IF d.A # NULL /\ d.P # NULL THEN {[work |-> "work", status |-> 0]} ELSE {})

osqp_setup(m, out) ==
  Call(IF out.work = NULL THEN m ELSE c_malloc(m, {out.work}), "osqp_setup")

\* osqp_cleanup(work) frees the workspace and all it owns.
osqp_cleanup(m, work) ==
  Call([Use(m, work) EXCEPT !.heap = @ \ {work}], "osqp_cleanup")

osqp_open_log(m) == Call(m, "osqp_open_log")
osqp_close_log(m) == Call(m, "osqp_close_log")

\* ------------------------------------------------ d3x_create_csc

d3x_create_csc(m, mat, rowind, colind, coeffs, out) ==
  LET m1 == Get(Get(Get(m, rowind), colind), coeffs)
      tripOk == out \in {"ok", "triplet_to_csc_null"}
      m2 == csc_matrix(m1, mat, tripOk)
      triplet == IF tripOk THEN TripletOf(mat) ELSE NULL
      \* triplet->nz = nnz
      trapped == out = "csc_matrix_null_trap"
      compOk == out = "ok"
      m3 == triplet_to_csc(IF tripOk THEN Use(m2, triplet) ELSE m2, mat, compOk)
      m4 == c_free(m3, triplet)
      m5 == Release(Release(Release(m4, rowind), colind), coeffs)
  IN  IF trapped
        THEN [m |-> m2, ret |-> NULL, trapped |-> TRUE]
        ELSE [m |-> m5, ret |-> IF compOk THEN mat ELSE NULL, trapped |-> FALSE]

\* ------------------------------------------------ d3x_create_data

NullData == [ptr |-> NULL, n |-> 0, m |-> 0, q |-> NULL, l |-> NULL, u |-> NULL,
             A |-> NULL, P |-> NULL]

d3x_create_data(m, mallocOk, outA, outP) ==
  IF ~mallocOk
    THEN [m |-> m, ret |-> NullData, trapped |-> FALSE]
    ELSE
      LET m1 == c_malloc(m, {"data"})
          m2 == Get(Get(Get(m1, "linObjCoeff"), "linConLower"), "linConUpper")
          d0 == [ptr |-> "data", n |-> numVar, m |-> numDual, q |-> "linObjCoeff",
                 l |-> "linConLower", u |-> "linConUpper", A |-> NULL, P |-> NULL]
          a == d3x_create_csc(m2, "A", "linConRowInd", "linConColInd", "linConCoeff", outA)
          p == d3x_create_csc(a.m, "P", "quadObjRowInd", "quadObjColInd", "quadObjCoeff", outP)
      IN  IF a.trapped
            THEN [m |-> a.m, ret |-> d0, trapped |-> TRUE]
            ELSE [m |-> p.m, ret |-> [d0 EXCEPT !.A = a.ret, !.P = p.ret],
                  trapped |-> p.trapped]

\* ------------------------------------------------ d3x_free_data

d3x_free_data(m, d) ==
  LET m1 == Release(Release(Release(Use(m, d.ptr), d.q), d.l), d.u)
  IN  c_free(c_free(c_free(m1, d.A), d.P), d.ptr)

\* ------------------------------------------------ settings

\* (int) value: the cast without round(), truncating toward zero.
d3x_to_int_Truncates(value) ==
  IF value >= 0 THEN value \div 4 ELSE -((-value) \div 4)

\* (int) round(value), with value counted in quarters: round() takes the nearest
\* integer and a tie away from zero.
d3x_to_int(value) ==
  IF value >= 0 THEN (value + 2) \div 4 ELSE -((2 - value) \div 4)

NullSettings ==
  [ptr |-> NULL, rho |-> LibDefault, sigma |-> LibDefault, alpha |-> LibDefault,
   polish |-> LibDefault, max_iter |-> LibDefault, eps_abs |-> LibDefault,
   eps_rel |-> LibDefault, eps_prim_inf |-> LibDefault, eps_dual_inf |-> LibDefault]

\* The dispatch with a comparison that ignores case.
AssignField_IgnoresCase(rawName, paramValue, s) ==
  IF rawName \in {"RHO", "rho"} THEN [s EXCEPT !.rho = Assigned(paramValue)]
  ELSE IF rawName = "SIGMA" THEN [s EXCEPT !.sigma = Assigned(paramValue)]
  ELSE IF rawName = "ALPHA" THEN [s EXCEPT !.alpha = Assigned(paramValue)]
  ELSE IF rawName = "POLISH" THEN [s EXCEPT !.polish = Assigned(d3x_to_int(paramValue))]
  ELSE IF rawName = "MAX_ITER" THEN [s EXCEPT !.max_iter = Assigned(d3x_to_int(paramValue))]
  ELSE IF rawName = "EPS_ABS" THEN [s EXCEPT !.eps_abs = Assigned(paramValue)]
  ELSE IF rawName = "EPS_REL" THEN [s EXCEPT !.eps_rel = Assigned(paramValue)]
  ELSE IF rawName = "EPS_PRIM_INF" THEN [s EXCEPT !.eps_prim_inf = Assigned(paramValue)]
  ELSE IF rawName = "EPS_DUAL_INF" THEN [s EXCEPT !.eps_dual_inf = Assigned(paramValue)]
  ELSE s

\* The fields d3x_assign_setting leaves in the record.
AssignField(rawName, paramValue, s) ==
  IF rawName = "RHO" THEN [s EXCEPT !.rho = Assigned(paramValue)]
  ELSE IF rawName = "SIGMA" THEN [s EXCEPT !.sigma = Assigned(paramValue)]
  ELSE IF rawName = "ALPHA" THEN [s EXCEPT !.alpha = Assigned(paramValue)]
  ELSE IF rawName = "POLISH" THEN [s EXCEPT !.polish = Assigned(d3x_to_int(paramValue))]
  ELSE IF rawName = "MAX_ITER" THEN [s EXCEPT !.max_iter = Assigned(d3x_to_int(paramValue))]
  ELSE IF rawName = "EPS_ABS" THEN [s EXCEPT !.eps_abs = Assigned(paramValue)]
  ELSE IF rawName = "EPS_REL" THEN [s EXCEPT !.eps_rel = Assigned(paramValue)]
  ELSE IF rawName = "EPS_PRIM_INF" THEN [s EXCEPT !.eps_prim_inf = Assigned(paramValue)]
  ELSE IF rawName = "EPS_DUAL_INF" THEN [s EXCEPT !.eps_dual_inf = Assigned(paramValue)]
  ELSE s

\* d3x_assign_setting on the pair (machine, settings record).
d3x_assign_setting(ms, paramName, paramValue) ==
  [m |-> Release(Get(ms.m, "paramName"), "paramName"),
   s |-> AssignField(paramName, paramValue, ms.s)]

RECURSIVE AssignAll(_, _, _, _)
\* The loop of d3x_create_settings from paramIndex (1-based) on.
AssignAll(ms, names, values, paramIndex) ==
  IF paramIndex > Len(names) THEN ms
  ELSE AssignAll(d3x_assign_setting(ms, names[paramIndex], values[paramIndex]),
                 names, values, paramIndex + 1)

\* The allocation without the forced polish = 1.
SettingsAlloc_LibraryPolish(m) ==
  [m |-> Get(c_malloc(m, {"settings"}), "paramValues"),
   s |-> osqp_set_default_settings([NullSettings EXCEPT !.ptr = "settings"])]

\* d3x_create_settings up to its loop: the struct allocated, the defaults, polish
\* forced to 1, paramValues acquired.
SettingsAlloc(m) ==
  LET m1 == c_malloc(m, {"settings"})
      s1 == [osqp_set_default_settings([NullSettings EXCEPT !.ptr = "settings"])
               EXCEPT !.polish = Assigned(1)]
  IN  [m |-> Get(m1, "paramValues"), s |-> s1]

d3x_create_settings(m, mallocOk, names, values) ==
  IF ~mallocOk
    THEN [m |-> m, s |-> NullSettings]
    ELSE
      LET ms == AssignAll(SettingsAlloc(m), names, values, 1)
      IN  [m |-> Release(ms.m, "paramValues"), s |-> ms.s]

\* ------------------------------------------------ d3x_create_workspace

NullWorkspace == [ptr |-> NULL, x |-> <<>>, y |-> <<>>, status_val |-> 0]

\* d3x_create_workspace without its test of the setup status.
d3x_create_workspace_IgnoresStatus(m, out) ==
  LET m1 == osqp_setup(m, out)
  IN  IF out.work = NULL THEN [m |-> m1, ret |-> NULL]
      ELSE [m |-> m1, ret |-> out.work]

\* d3x_create_workspace returning the workspace it has just cleaned up.
d3x_create_workspace_ReturnsCleaned(m, out) ==
  LET m1 == osqp_setup(m, out)
  IN  IF out.work = NULL THEN [m |-> m1, ret |-> NULL]
      ELSE IF out.status # 0 THEN [m |-> osqp_cleanup(m1, out.work), ret |-> out.work]
      ELSE [m |-> m1, ret |-> out.work]

\* The machine after the call and the pointer returned, for an outcome of osqp_setup.
d3x_create_workspace(m, out) ==
  LET m1 == osqp_setup(m, out)
  IN  IF out.work = NULL THEN [m |-> m1, ret |-> NULL]
      ELSE IF out.status # 0 THEN [m |-> osqp_cleanup(m1, out.work), ret |-> NULL]
      ELSE [m |-> m1, ret |-> out.work]

\* ------------------------------------------------ osqp_solve, the copy back

\* osqp_solve(workspace): what it returns and what it leaves in the workspace's
\* solution and info.  A solve that fails leaves them as osqp_setup made them.
SolveOutcomes(n, m) ==
  {[exit |-> 0, x |-> x, y |-> y, status_val |-> s] :
     x \in [1 .. n -> Vals], y \in [1 .. m -> Vals], s \in StatusVals}
  \cup
  {[exit |-> e, x |-> [i \in 1 .. n |-> 0], y |-> [i \in 1 .. m |-> 0],
    status_val |-> OSQP_UNSOLVED] : e \in SolveErrors}

\* SetDoubleArrayRegion(array, 0, len, buf)
SetDoubleArrayRegion(array, len, buf) ==
  [i \in DOMAIN array |-> IF i <= len THEN buf[i] ELSE array[i]]

\* ------------------------------------------------ the machine, stored back

Store(m) ==
  /\ heap' = m.heap
  /\ acq' = m.acq
  /\ rel' = m.rel
  /\ trace' = m.trace

Return(v) ==
  /\ pc' = "returned"
  /\ ret' = ToJint(v)

\* No d3x_create_csc call followed on its own.
NoCscIn == [nrow |-> 0, ncol |-> 0, rowind |-> <<>>, colind |-> <<>>, coeffs |-> <<>>]
NoCsc == [ptr |-> NULL, m |-> 0, n |-> 0, nzmax |-> 0, p |-> <<>>, i |-> <<>>, x |-> <<>>]

\* ------------------------------------------ Java_com_d3x_osqp_OsqpModel_run

Init ==
  /\ pc = "start"
  /\ cIntSize \in Widths
  /\ cFloatSize \in Widths
  /\ numVar \in Dims
  /\ numDual \in Dims
  /\ logName \in {"", "osqp.log"}
  /\ \E c \in ParamCases : paramNames = c.names /\ paramValues = c.values
  /\ \E c \in Vals : optPrimal0 = [i \in Dims |-> c]
  /\ \E c \in Vals : optDual0 = [i \in Dims |-> c]
  /\ optPrimal = optPrimal0
  /\ optDual = optDual0
  /\ heap = {}
  /\ acq = [b \in Buffers |-> 0]
  /\ rel = [b \in Buffers |-> 0]
  /\ trace = <<>>
  /\ data = NullData
  /\ settings = NullSettings
  /\ workspace = NullWorkspace
  /\ setupOut = [work |-> NULL, status |-> 0]
  /\ solveRet = 0
  /\ status = 0
  /\ ret = 0
  /\ settingsIndex = 0
  /\ cscIn = NoCscIn
  /\ cscOut = NoCsc

\* The width check without its test of c_float.
WidthCheck_IntOnly ==
  /\ pc = "start"
  /\ IF cIntSize # SizeofLong THEN Return(SETUP_ERROR)
     ELSE pc' = "create_data" /\ ret' = ret
  /\ UNCHANGED <<args, optPrimal, optDual, heap, acq, rel, trace, data, settings,
                 workspace, setupOut, solveRet, status>>

\* sizeof(c_int) != sizeof(long), sizeof(c_float) != sizeof(double)
WidthCheck ==
  /\ pc = "start"
  /\ IF cIntSize # SizeofLong THEN Return(SETUP_ERROR)
     ELSE IF cFloatSize # SizeofDouble THEN Return(SETUP_ERROR)
     ELSE pc' = "create_data" /\ ret' = ret
  /\ UNCHANGED <<args, optPrimal, optDual, heap, acq, rel, trace, data, settings,
                 workspace, setupOut, solveRet, status>>

\* data = d3x_create_data(...)
CreateData ==
  /\ pc = "create_data"
  /\ \E mallocOk \in BOOLEAN, outA \in CscOutcomes, outP \in CscOutcomes :
       LET r == d3x_create_data(Machine, mallocOk, outA, outP)
       IN  /\ Store(r.m)
           /\ data' = r.ret
           /\ pc' = IF r.trapped THEN "trapped" ELSE "create_settings"
  /\ UNCHANGED <<args, optPrimal, optDual, settings, workspace, setupOut, solveRet, status, ret>>

\* settings = d3x_create_settings(...)
CreateSettings ==
  /\ pc = "create_settings"
  /\ \E mallocOk \in BOOLEAN :
       LET r == d3x_create_settings(Machine, mallocOk, paramNames, paramValues)
       IN  /\ Store(r.m)
           /\ settings' = r.s
  /\ pc' = "null_check"
  /\ UNCHANGED <<args, optPrimal, optDual, data, workspace, setupOut, solveRet, status, ret>>

\* if (!data || !settings) return SETUP_ERROR;
NullCheck ==
  /\ pc = "null_check"
  /\ IF data.ptr = NULL \/ settings.ptr = NULL THEN Return(SETUP_ERROR)
     ELSE pc' = "open_log" /\ ret' = ret
  /\ UNCHANGED <<args, optPrimal, optDual, heap, acq, rel, trace, data, settings,
                 workspace, setupOut, solveRet, status>>

\* if (GetStringUTFLength(logName) > 0) { ... osqp_open_log(rawLogName); ... }
OpenLog ==
  /\ pc = "open_log"
  /\ IF Len(logName) > 0
       THEN Store(Release(osqp_open_log(Get(Machine, "logName")), "logName"))
       ELSE UNCHANGED <<heap, acq, rel, trace>>
  /\ pc' = "create_workspace"
  /\ UNCHANGED <<args, optPrimal, optDual, data, settings, workspace, setupOut, solveRet,
                 status, ret>>

\* workspace = d3x_create_workspace(data, settings)
CreateWorkspace ==
  /\ pc = "create_workspace"
  /\ \E out \in SetupOutcomes(data) :
       LET r == d3x_create_workspace(Use(Use(Machine, data.ptr), settings.ptr), out)
       IN  /\ Store(r.m)
           /\ workspace' = [NullWorkspace EXCEPT !.ptr = r.ret]
           /\ setupOut' = out
  /\ pc' = "check_workspace"
  /\ UNCHANGED <<args, optPrimal, optDual, data, settings, solveRet, status, ret>>

\* The return on a null workspace without osqp_close_log.
CheckWorkspace_NoClose ==
  /\ pc = "check_workspace"
  /\ IF workspace.ptr = NULL
       THEN UNCHANGED <<heap, acq, rel, trace>> /\ Return(SETUP_ERROR)
       ELSE pc' = "solve" /\ UNCHANGED <<heap, acq, rel, trace, ret>>
  /\ UNCHANGED <<args, optPrimal, optDual, data, settings, workspace, setupOut, solveRet, status>>

\* if (!workspace) { osqp_close_log(); return SETUP_ERROR; }
CheckWorkspace ==
  /\ pc = "check_workspace"
  /\ IF workspace.ptr = NULL
       THEN Store(osqp_close_log(Machine)) /\ Return(SETUP_ERROR)
       ELSE pc' = "solve" /\ UNCHANGED <<heap, acq, rel, trace, ret>>
  /\ UNCHANGED <<args, optPrimal, optDual, data, settings, workspace, setupOut, solveRet, status>>

\* c_int status = osqp_solve(workspace);
Solve ==
  /\ pc = "solve"
  /\ \E out \in SolveOutcomes(data.n, data.m) :
       /\ status' = out.exit
       /\ solveRet' = out.exit
       /\ workspace' = [workspace EXCEPT !.x = out.x, !.y = out.y,
                                         !.status_val = out.status_val]
  /\ Store(Call(Use(Machine, workspace.ptr), "osqp_solve"))
  /\ pc' = "assign"
  /\ UNCHANGED <<args, optPrimal, optDual, data, settings, setupOut, ret>>

\* The copy back without the assignment of info->status_val to status.
AssignSolution_KeepsSolveStatus ==
  /\ pc = "assign"
  /\ IF status = 0
       THEN /\ optPrimal' = SetDoubleArrayRegion(optPrimal, numVar, workspace.x)
            /\ optDual' = SetDoubleArrayRegion(optDual, numDual, workspace.y)
            /\ status' = status
       ELSE UNCHANGED <<optPrimal, optDual, status>>
  /\ pc' = "cleanup"
  /\ Store(IF status = 0 THEN Use(Machine, workspace.ptr) ELSE Machine)
  /\ UNCHANGED <<args, data, settings, workspace, setupOut, solveRet, ret>>

\* The copy back made whatever osqp_solve returned.
AssignSolution_CopiesAlways ==
  /\ pc = "assign"
  /\ optPrimal' = SetDoubleArrayRegion(optPrimal, numVar, workspace.x)
  /\ optDual' = SetDoubleArrayRegion(optDual, numDual, workspace.y)
  /\ status' = IF status = 0 THEN workspace.status_val ELSE status
  /\ pc' = "cleanup"
  /\ Store(IF status = 0 THEN Use(Machine, workspace.ptr) ELSE Machine)
  /\ UNCHANGED <<args, data, settings, workspace, setupOut, solveRet, ret>>

\* The copy back left out when the solver reports the problem infeasible.
AssignSolution_SkipsInfeasible ==
  /\ pc = "assign"
  /\ IF status = 0
       THEN /\ IF workspace.status_val = OSQP_PRIMAL_INFEASIBLE
                 THEN UNCHANGED <<optPrimal, optDual>>
                 ELSE /\ optPrimal' = SetDoubleArrayRegion(optPrimal, numVar, workspace.x)
                      /\ optDual' = SetDoubleArrayRegion(optDual, numDual, workspace.y)
            /\ status' = workspace.status_val
       ELSE UNCHANGED <<optPrimal, optDual, status>>
  /\ pc' = "cleanup"
  /\ Store(IF status = 0 THEN Use(Machine, workspace.ptr) ELSE Machine)
  /\ UNCHANGED <<args, data, settings, workspace, setupOut, solveRet, ret>>

\* if (status == 0) { SetDoubleArrayRegion x 2; status = workspace->info->status_val; }
AssignSolution ==
  /\ pc = "assign"
  /\ IF status = 0
       THEN /\ optPrimal' = SetDoubleArrayRegion(optPrimal, numVar, workspace.x)
            /\ optDual' = SetDoubleArrayRegion(optDual, numDual, workspace.y)
            /\ status' = workspace.status_val
       ELSE UNCHANGED <<optPrimal, optDual, status>>
  /\ pc' = "cleanup"
  /\ Store(IF status = 0 THEN Use(Machine, workspace.ptr) ELSE Machine)
  /\ UNCHANGED <<args, data, settings, workspace, setupOut, solveRet, ret>>

\* osqp_cleanup(workspace);
Cleanup ==
  /\ pc = "cleanup"
  /\ Store(osqp_cleanup(Machine, workspace.ptr))
  /\ pc' = "free_settings"
  /\ UNCHANGED <<args, optPrimal, optDual, data, settings, workspace, setupOut, solveRet,
                 status, ret>>

\* c_free(settings);
FreeSettings ==
  /\ pc = "free_settings"
  /\ Store(c_free(Machine, settings.ptr))
  /\ pc' = "free_data"
  /\ UNCHANGED <<args, optPrimal, optDual, data, settings, workspace, setupOut, solveRet,
                 status, ret>>

\* d3x_free_data(jniEnv, linObjCoeff, linConLower, linConUpper, data);
FreeData ==
  /\ pc = "free_data"
  /\ Store(d3x_free_data(Machine, data))
  /\ pc' = "close_log"
  /\ UNCHANGED <<args, optPrimal, optDual, data, settings, workspace, setupOut, solveRet,
                 status, ret>>

\* osqp_close_log(); return (jint) status;
CloseLog ==
  /\ pc = "close_log"
  /\ Store(osqp_close_log(Machine))
  /\ Return(status)
  /\ UNCHANGED <<args, optPrimal, optDual, data, settings, workspace, setupOut, solveRet, status>>

Next ==
  \/ WidthCheck
  \/ CreateData
  \/ CreateSettings
  \/ NullCheck
  \/ OpenLog
  \/ CreateWorkspace
  \/ CheckWorkspace
  \/ Solve
  \/ AssignSolution
  \/ Cleanup
  \/ FreeSettings
  \/ FreeData
  \/ CloseLog

Spec == Init /\ [][Next]_vars

\* ------------------------------------- d3x_create_settings, pair by pair

\* The number of overrides ranges over 0..MaxParams.
MaxParams == 2

\* The names given: the nine recognised ones, an unknown one, and one that
\* differs from a recognised one by case only.
ParamNameSet == SettingNames \cup {"FOO", "rho"}
\* The values given, in quarters: -0.75, 0, 1.5.
ParamVals == {-3, 0, 6}

\* The state of run before the call, for a function followed on its own.
BeforeRun ==
  /\ cIntSize = SizeofLong
  /\ cFloatSize = SizeofDouble
  /\ numVar = 1
  /\ numDual = 1
  /\ logName = ""
  /\ optPrimal0 = [i \in Dims |-> 0]
  /\ optDual0 = [i \in Dims |-> 0]
  /\ optPrimal = optPrimal0
  /\ optDual = optDual0
  /\ heap = {}
  /\ acq = [b \in Buffers |-> 0]
  /\ rel = [b \in Buffers |-> 0]
  /\ trace = <<>>
  /\ data = NullData
  /\ settings = NullSettings
  /\ workspace = NullWorkspace
  /\ setupOut = [work |-> NULL, status |-> 0]
  /\ solveRet = 0
  /\ status = 0
  /\ ret = 0

InitSettings ==
  /\ pc = "settings_start"
  /\ BeforeRun
  /\ \E n \in 0 .. MaxParams :
       /\ paramNames \in [1 .. n -> ParamNameSet]
       /\ paramValues \in [1 .. n -> ParamVals]
  /\ settingsIndex = 0
  /\ cscIn = NoCscIn
  /\ cscOut = NoCsc

notSettings ==
  <<cIntSize, cFloatSize, numVar, numDual, logName, paramNames, paramValues,
    optPrimal, optDual, optPrimal0, optDual0, data, workspace, setupOut, solveRet,
    status, ret, cscIn, cscOut>>

\* c_malloc, the defaults, polish = 1, GetDoubleArrayElements(paramValues)
SettingsBegin ==
  /\ pc = "settings_start"
  /\ \E mallocOk \in BOOLEAN :
       IF mallocOk
         THEN LET r == SettingsAlloc(Machine)
              IN  /\ Store(r.m)
                  /\ settings' = r.s
                  /\ settingsIndex' = 1
                  /\ pc' = "settings_loop"
         ELSE /\ settings' = NullSettings
              /\ pc' = "settings_done"
              /\ UNCHANGED <<heap, acq, rel, trace, settingsIndex>>
  /\ UNCHANGED notSettings

\* One turn of the loop: d3x_assign_setting on the pair at paramIndex.
SettingsAssign ==
  /\ pc = "settings_loop"
  /\ settingsIndex <= Len(paramNames)
  /\ LET r == d3x_assign_setting([m |-> Machine, s |-> settings],
                                 paramNames[settingsIndex], paramValues[settingsIndex])
     IN  /\ Store(r.m)
         /\ settings' = r.s
  /\ settingsIndex' = settingsIndex + 1
  /\ UNCHANGED <<pc, notSettings>>

\* The loop left: ReleaseDoubleArrayElements(paramValues); return settings;
SettingsEnd ==
  /\ pc = "settings_loop"
  /\ settingsIndex > Len(paramNames)
  /\ Store(Release(Machine, "paramValues"))
  /\ pc' = "settings_done"
  /\ UNCHANGED <<settings, settingsIndex, notSettings>>

NextSettings ==
  \/ SettingsBegin
  \/ SettingsAssign
  \/ SettingsEnd

SpecSettings == InitSettings /\ [][NextSettings]_vars

\* ------------------------------------------- d3x_create_csc, its matrix

\* The number of triplets ranges over 0..MaxNnz.
MaxNnz == 2

\* csc_matrix(m, n, nzmax, x, i, p): a matrix record around the arrays given,
\* not marked as a triplet (nz = -1).
csc_matrix_value(m, n, nzmax, x, i, p) ==
  [m |-> m, n |-> n, nzmax |-> nzmax, nz |-> -1, p |-> p, i |-> i, x |-> x]

\* triplet_to_csc(T, OSQP_NULL): a stable counting sort of the T.nz triplets by
\* column (T.p holds the column indices, T.i the row indices, all 0-based) into
\* new arrays; the capacity allocated is at least 1.
triplet_to_csc_value(T, ptr) ==
  LET nz == IF T.nz < 0 THEN 0 ELSE T.nz
      K == 1 .. nz
      Rank(k) == Cardinality({k2 \in K : \/ T.p[k2] < T.p[k]
                                         \/ T.p[k2] = T.p[k] /\ k2 <= k})
      At(q) == CHOOSE k \in K : Rank(k) = q
  IN  [ptr |-> ptr, m |-> T.m, n |-> T.n,
       nzmax |-> IF nz > 1 THEN nz ELSE 1,
       p |-> [j \in 1 .. T.n + 1 |-> Cardinality({k \in K : T.p[k] < j - 1})],
       i |-> [q \in K |-> T.i[At(q)]],
       x |-> [q \in K |-> T.x[At(q)]]]

\* The conversion with the row and column arrays handed over in each other's place.
d3x_create_csc_value_SwapsIndices(nrow, ncol, rowind, colind, coeffs, ptr) ==
  LET nnz == Len(coeffs)
      triplet == [csc_matrix_value(nrow, ncol, nnz, coeffs, colind, rowind)
                    EXCEPT !.nz = nnz]
  IN  triplet_to_csc_value(triplet, ptr)

\* The conversion without triplet->nz = nnz.
d3x_create_csc_value_NoNz(nrow, ncol, rowind, colind, coeffs, ptr) ==
  LET nnz == Len(coeffs)
      triplet == csc_matrix_value(nrow, ncol, nnz, coeffs, rowind, colind)
  IN  triplet_to_csc_value(triplet, ptr)

\* The matrix d3x_create_csc returns when its allocations succeed:
\* nnz = GetArrayLength(coeffs); triplet = csc_matrix(nrow, ncol, nnz, Tx, Ti, Tj);
\* triplet->nz = nnz; compcol = triplet_to_csc(triplet, OSQP_NULL).
d3x_create_csc_value(nrow, ncol, rowind, colind, coeffs, ptr) ==
  LET nnz == Len(coeffs)
      triplet == [csc_matrix_value(nrow, ncol, nnz, coeffs, rowind, colind)
                    EXCEPT !.nz = nnz]
  IN  triplet_to_csc_value(triplet, ptr)

InitCsc ==
  /\ pc = "csc_start"
  /\ BeforeRun
  /\ paramNames = <<>>
  /\ paramValues = <<>>
  /\ settingsIndex = 0
  /\ \E nrow \in Dims, ncol \in Dims, nnz \in 0 .. MaxNnz :
       \E rowind \in [1 .. nnz -> 0 .. nrow - 1], colind \in [1 .. nnz -> 0 .. ncol - 1],
          coeffs \in [1 .. nnz -> Vals] :
         cscIn = [nrow |-> nrow, ncol |-> ncol, rowind |-> rowind, colind |-> colind,
                  coeffs |-> coeffs]
  /\ cscOut = NoCsc

\* data->A = d3x_create_csc(jniEnv, numDual, numVar, linConRowInd, linConColInd, linConCoeff)
CscCreate ==
  /\ pc = "csc_start"
  /\ \E out \in CscOutcomes :
       LET r == d3x_create_csc(Machine, "A", "linConRowInd", "linConColInd",
                               "linConCoeff", out)
       IN  /\ Store(r.m)
           /\ cscOut' = IF r.ret = NULL THEN NoCsc
                        ELSE d3x_create_csc_value(cscIn.nrow, cscIn.ncol, cscIn.rowind,
                                                  cscIn.colind, cscIn.coeffs, r.ret)
           /\ pc' = IF r.trapped THEN "trapped" ELSE "csc_done"
  /\ UNCHANGED <<cIntSize, cFloatSize, numVar, numDual, logName, paramNames, paramValues,
                 optPrimal, optDual, optPrimal0, optDual0, data, settings, workspace,
                 setupOut, solveRet, status, ret, settingsIndex, cscIn>>

NextCsc == CscCreate

SpecCsc == InitCsc /\ [][NextCsc]_vars

\* ------------------------------------------------------------ claims

Returned == pc = "returned"
WidthMismatch == cIntSize # SizeofLong \/ cFloatSize # SizeofDouble
InitAttempted == Calls("osqp_setup") = 1
InitSucceeded == InitAttempted /\ setupOut.work # NULL /\ setupOut.status = 0
InitFailed == InitAttempted /\ (setupOut.work = NULL \/ setupOut.status # 0)
Solved == Calls("osqp_solve") = 1
ProblemBlocks == {"data"} \cup MatBlocks("A") \cup MatBlocks("P")
Borrowed == {"linObjCoeff", "linConLower", "linConUpper"}
OutputsUntouched == optPrimal = optPrimal0 /\ optDual = optDual0
OutputsHoldSolution ==
  /\ \A i \in 1 .. numVar : optPrimal[i] = workspace.x[i]
  /\ \A i \in 1 .. numDual : optDual[i] = workspace.y[i]
Has(e) == \E i \in 1 .. Len(trace) : trace[i] = e
\* The four steps of the teardown, each made once, in this order.
TeardownOrder ==
  /\ Calls("osqp_cleanup") = 1
  /\ Count(trace, <<"c_free", "settings">>) = 1
  /\ Count(trace, <<"c_free", "data">>) = 1
  /\ Calls("osqp_close_log") = 1
  /\ Pos(trace, <<"osqp_cleanup", "">>) < Pos(trace, <<"c_free", "settings">>)
  /\ Pos(trace, <<"c_free", "settings">>) < Pos(trace, <<"c_free", "data">>)
  /\ Pos(trace, <<"c_free", "data">>) < Pos(trace, <<"osqp_close_log", "">>)

\* C1: on every exit path of run, every foreign buffer acquired during the call
\* has been released exactly once when the call returns: none is still held at
\* the return and none is released more often than it was acquired.
C1_BuffersReleasedOnEveryExit ==
  /\ \A b \in Buffers : rel[b] <= acq[b]
  /\ Returned => \A b \in Buffers : rel[b] = acq[b]

\* C2: when workspace initialization fails, run returns -1 with the settings
\* record and the problem instance (the OSQPData struct, its two matrices and the
\* borrowed q/l/u arrays) all released.
C2_InitFailureReleasesAll ==
  (Returned /\ InitFailed) =>
    /\ ret = SETUP_ERROR
    /\ "settings" \notin heap
    /\ heap \cap ProblemBlocks = {}
    /\ \A b \in Borrowed : rel[b] = acq[b]

\* C3: when exactly one of the problem struct and the settings struct could not
\* be allocated, run returns -1 and whatever the other one holds (the struct, the
\* matrices, the borrowed arrays) has been released.
C3_OneAllocationFailureLeaksNothing ==
  (Returned /\ ~WidthMismatch /\ ((data.ptr = NULL) # (settings.ptr = NULL))) =>
    /\ ret = SETUP_ERROR
    /\ heap = {}
    /\ \A b \in Buffers : rel[b] = acq[b]

\* C4: after a run that reached the solve step and returned, no native block
\* allocated during the call is still allocated.
C4_NoNativeBlockLeftAfterSolve ==
  (Returned /\ Solved) => heap = {}

\* C5: on every path on which osqp_setup created a workspace, the teardown is
\* osqp_cleanup, then the settings freed, then the problem released, then the log
\* closed; settings and problem are never freed before the workspace is torn down.
C5_TeardownOrder ==
  /\ (Has(<<"c_free", "settings">>) \/ Has(<<"c_free", "data">>))
       => Has(<<"osqp_cleanup", "">>)
  /\ (Returned /\ setupOut.work # NULL) => TeardownOrder

\* C6: osqp_solve is invoked exactly once when workspace initialization succeeded
\* and never when the call fails earlier (width mismatch, null problem or
\* settings, failed initialization), and each earlier failure returns -1.
C6_SolveExactlyOnceAfterInit ==
  /\ Calls("osqp_solve") <= 1
  /\ Solved => InitSucceeded
  /\ Returned => IF InitSucceeded THEN Solved
                 ELSE ~Solved /\ ret = SETUP_ERROR

C6_Witness == Returned /\ InitSucceeded /\ Solved /\ ret # SETUP_ERROR

\* C7: when osqp_solve returns 0, the first numVar entries of the primal solution
\* are in optPrimal, the first numDual entries of the dual solution are in
\* optDual, and the value returned is info->status_val, not the 0 of osqp_solve.
C7_SolveZeroCopiesAndReturnsStatusVal ==
  (Returned /\ Solved /\ solveRet = 0) =>
    /\ OutputsHoldSolution
    /\ ret = workspace.status_val

C7_Witness ==
  /\ Returned /\ Solved /\ solveRet = 0
  /\ optPrimal # optPrimal0 /\ optDual # optDual0
  /\ ret = OSQP_MAX_ITER_REACHED

\* C8: when osqp_solve returns a non-zero code, the output buffers hold their
\* pre-call contents at the return, that code is the value returned, and the
\* teardown (workspace, settings, problem, log) has run.
C8_SolveFailureLeavesOutputs ==
  (Returned /\ Solved /\ solveRet # 0) =>
    /\ OutputsUntouched
    /\ ret = solveRet
    /\ TeardownOrder
    /\ \A b \in Borrowed : rel[b] = acq[b]

C8_Witness ==
  Returned /\ Solved /\ solveRet = 1 /\ optPrimal0[1] = 1 /\ optDual0[1] = 1

\* C9: on a width mismatch run returns -1 having allocated nothing, acquired no
\* foreign buffer, opened no log, called no library function and written neither
\* output buffer.
C9_WidthMismatchDoesNothing ==
  WidthMismatch =>
    /\ pc \in {"start", "returned"}
    /\ Returned => ret = SETUP_ERROR
    /\ heap = {}
    /\ trace = <<>>
    /\ \A b \in Buffers : acq[b] = 0
    /\ OutputsUntouched

C9_Witness == Returned /\ cIntSize = SizeofLong /\ cFloatSize # SizeofDouble

\* C10, as stated: whenever run returns the solver's infeasible status code, the
\* output buffers hold their pre-call values.
C10_InfeasibleLeavesOutputs ==
  (Returned /\ ret = OSQP_PRIMAL_INFEASIBLE) => OutputsUntouched

\* C10, amended: the infeasible status code of a solve that returned 0 is
\* returned with the output buffers written from the workspace's solution; they
\* keep their pre-call values exactly when the solver was not called or
\* osqp_solve returned a non-zero code.
C10_InfeasibleReturnedWithOutputsWritten ==
  /\ (Returned /\ Solved /\ solveRet = 0 /\ workspace.status_val = OSQP_PRIMAL_INFEASIBLE)
       => (ret = OSQP_PRIMAL_INFEASIBLE /\ OutputsHoldSolution)
  /\ (Returned /\ (~Solved \/ solveRet # 0)) => OutputsUntouched

C10_Witness ==
  /\ Returned /\ ret = OSQP_PRIMAL_INFEASIBLE
  /\ optPrimal # optPrimal0 /\ optDual # optDual0

\* C11: the jint returned has the numeric value of the status the native layer
\* holds at the end of the call (SETUP_ERROR on the early returns, the c_int
\* status after the solve): the (jint) conversion changes no status the solver
\* produces.
C11_ReturnedStatusUnmodified ==
  Returned => ret = (IF Solved THEN status ELSE SETUP_ERROR)

C11_Witness ==
  Returned /\ Solved /\ solveRet = 0 /\ status = OSQP_PRIMAL_INFEASIBLE /\ ret < 0

\* The field of the settings record that a recognised name names.
FieldOf(s, name) ==
  CASE name = "RHO" -> s.rho
    [] name = "SIGMA" -> s.sigma
    [] name = "ALPHA" -> s.alpha
    [] name = "POLISH" -> s.polish
    [] name = "MAX_ITER" -> s.max_iter
    [] name = "EPS_ABS" -> s.eps_abs
    [] name = "EPS_REL" -> s.eps_rel
    [] name = "EPS_PRIM_INF" -> s.eps_prim_inf
    [] name = "EPS_DUAL_INF" -> s.eps_dual_inf
IntegerCoded == {"POLISH", "MAX_ITER"}
\* The last index at which the name is given, 0 when it is not given.
LastIndex(name) ==
  LET at == {i \in 1 .. Len(paramNames) : paramNames[i] = name}
  IN  IF at = {} THEN 0 ELSE CHOOSE i \in at : \A j \in at : j <= i
\* n is an integer nearest to the double counted by v quarters.
Nearest(n, v) == 4 * n - v \in -2 .. 2
\* What the claim says the field named name holds in record s.
ResolvedAsLastWins(s, name) ==
  LET i == LastIndex(name)
      f == FieldOf(s, name)
  IN  IF i = 0
        THEN f = (IF name = "POLISH" THEN Assigned(1) ELSE LibDefault)
        ELSE /\ ~f.lib
             /\ IF name \in IntegerCoded THEN Nearest(f.v, paramValues[i])
                ELSE f.v = paramValues[i]
SettingsReturned == pc = "settings_done" /\ settings.ptr # NULL

\* C12: the record d3x_create_settings returns holds, for each recognised field,
\* the value of the last pair with that exact name (rounded to the nearest integer
\* for POLISH and MAX_ITER), or with no such pair the library default, polish
\* being 1; the loop followed pair by pair and the function as run calls it agree.
C12_LastWriteWinsPolishDefault ==
  SettingsReturned =>
    /\ \A name \in SettingNames : ResolvedAsLastWins(settings, name)
    /\ d3x_create_settings([heap |-> {}, acq |-> [b \in Buffers |-> 0],
                            rel |-> [b \in Buffers |-> 0], trace |-> <<>>],
                           TRUE, paramNames, paramValues).s = settings

C12_Witness ==
  /\ SettingsReturned
  /\ paramNames = <<"MAX_ITER", "MAX_ITER">>
  /\ paramValues = <<6, -3>>
  /\ settings.max_iter = Assigned(-1)
  /\ settings.polish = Assigned(1)

\* One turn of the loop on a name that is not recognised changes no field and
\* goes on to the next pair; on a recognised name it changes no other field.
C13_Turn ==
  (pc = "settings_loop" /\ settingsIndex' = settingsIndex + 1) =>
    LET name == paramNames[settingsIndex]
    IN  /\ name \notin SettingNames => settings' = settings
        /\ \A other \in SettingNames \ {name} :
             FieldOf(settings', other) = FieldOf(settings, other)
        /\ settings'.ptr = settings.ptr
        /\ pc' = "settings_loop"

\* C13: a pair whose name is not one of the nine recognised names (compared
\* exactly, case included) leaves every field unchanged, does not stop the loop
\* and never makes d3x_create_settings return null; a recognised name changes its
\* own field only.
C13_UnknownNameIgnored ==
  /\ [][C13_Turn]_vars
  /\ [](pc = "settings_done" =>
          IF settings.ptr = NULL THEN settingsIndex = 0 /\ "settings" \notin heap
          ELSE settingsIndex = Len(paramNames) + 1)

C13_Witness ==
  /\ SettingsReturned
  /\ paramNames = <<"rho", "EPS_ABS">>
  /\ paramValues = <<6, -3>>
  /\ settings.rho = LibDefault
  /\ settings.eps_abs = Assigned(-3)

CscReturned == pc = "csc_done" /\ "A" \in heap
\* How often the triplet (r, c, v) is among the arguments.
InputCount(r, c, v) ==
  Cardinality({k \in 1 .. Len(cscIn.coeffs) :
                 cscIn.rowind[k] = r /\ cscIn.colind[k] = c /\ cscIn.coeffs[k] = v})
\* How often the entry (r, c, v) is read back from matrix C: the positions of
\* column c are p[c]+1 .. p[c+1] (p 0-based, positions 1-based).
ReadCount(C, r, c, v) ==
  Cardinality({q \in 1 .. Len(C.i) :
                 /\ C.p[c + 1] < q /\ q <= C.p[c + 2]
                 /\ C.i[q] = r /\ C.x[q] = v})

\* C14: the entries read back from the matrix d3x_create_csc returns are the
\* triplets given, as a multiset, whatever their order within a column.
C14_RoundTripKeepsEntries ==
  CscReturned =>
    /\ Len(cscOut.i) = Len(cscIn.coeffs)
    /\ Len(cscOut.x) = Len(cscIn.coeffs)
    /\ Len(cscOut.p) = cscIn.ncol + 1
    /\ \A r \in 0 .. cscIn.nrow - 1, c \in 0 .. cscIn.ncol - 1, v \in Vals :
         ReadCount(cscOut, r, c, v) = InputCount(r, c, v)

C14_Witness ==
  /\ CscReturned
  /\ cscIn.nrow = 2 /\ cscIn.ncol = 2
  /\ cscIn.colind = <<1, 0>> /\ cscIn.rowind = <<0, 1>> /\ cscIn.coeffs = <<1, 0>>
  /\ cscOut.i = <<1, 0>> /\ cscOut.x = <<0, 1>> /\ cscOut.p = <<0, 1, 2>>

\* C15: the matrix d3x_create_csc returns has ncol+1 column pointers, they never
\* decrease, the last one is nnz (the length of coeffs, not the capacity
\* allocated), every row index stored is in [0, nrow), and with no triplet the
\* result is a matrix whose column pointers are all zero, not a null.
C15_CompressedColumnInvariant ==
  CscReturned =>
    /\ cscOut.ptr # NULL
    /\ Len(cscOut.p) = cscIn.ncol + 1
    /\ \A j \in 1 .. cscIn.ncol : cscOut.p[j] <= cscOut.p[j + 1]
    /\ cscOut.p[1] = 0
    /\ cscOut.p[cscIn.ncol + 1] = Len(cscIn.coeffs)
    /\ \A q \in 1 .. Len(cscOut.i) : cscOut.i[q] \in 0 .. cscIn.nrow - 1
    /\ Len(cscIn.coeffs) = 0 =>
         /\ \A j \in 1 .. cscIn.ncol + 1 : cscOut.p[j] = 0
         /\ cscOut.i = <<>> /\ cscOut.x = <<>>

C15_Witness ==
  /\ CscReturned
  /\ cscIn.ncol = 2 /\ cscIn.coeffs = <<>>
  /\ cscOut.p = <<0, 0, 0>> /\ cscOut.nzmax = 1

\* d3x_create_data has returned and an allocation under it had failed.
AssemblyFailed ==
  /\ ~WidthMismatch
  /\ pc \notin {"start", "create_data"}
  /\ (data.ptr = NULL \/ data.A = NULL \/ data.P = NULL)

\* C16: when an allocation of the problem assembly fails (the OSQPData struct, a
\* triplet record, a compressed-column matrix), d3x_create_data returns null, no
\* null pointer is dereferenced, and run returns -1 without osqp_setup or
\* osqp_solve being called.
C16_AssemblyFailureReturnsNull ==
  AssemblyFailed =>
    /\ data.ptr = NULL
    /\ pc # "trapped"
    /\ Calls("osqp_setup") = 0
    /\ Calls("osqp_solve") = 0
    /\ Returned => ret = SETUP_ERROR

OpenEvent == <<"osqp_open_log", "">>
CloseEvent == <<"osqp_close_log", "">>
PassedNullCheck == ~WidthMismatch /\ data.ptr # NULL /\ settings.ptr # NULL

\* C17: the log is opened exactly when logPath is non-empty and run got past the
\* null check, and then before osqp_setup; on every return after an open the log
\* has been closed, after the open; on every return after the null check
\* osqp_close_log has been called exactly once, opened or not, and on the
\* returns before it not at all.
C17_LogClosedOnEveryExit ==
  /\ Calls("osqp_open_log") <= 1
  /\ Has(OpenEvent) => Len(logName) > 0
  /\ Calls("osqp_setup") > 0 =>
       IF Len(logName) > 0
         THEN Has(OpenEvent) /\ Pos(trace, OpenEvent) < Pos(trace, <<"osqp_setup", "">>)
         ELSE ~Has(OpenEvent)
  /\ (Returned /\ Has(OpenEvent)) =>
       Calls("osqp_close_log") = 1 /\ Pos(trace, OpenEvent) < Pos(trace, CloseEvent)
  /\ Returned => Calls("osqp_close_log") = (IF PassedNullCheck THEN 1 ELSE 0)

C17_Witness ==
  /\ Returned /\ InitFailed /\ ret = SETUP_ERROR
  /\ Has(OpenEvent) /\ Calls("osqp_close_log") = 1

NativeBlocks ==
  {"data", "settings", "work", TripletOf("A"), TripletOf("P")}
    \cup MatBlocks("A") \cup MatBlocks("P")
Faults == {i \in 1 .. Len(trace) : trace[i][1] = "fault"}

\* C19: osqp_cleanup is called at most once and only on a workspace osqp_setup
\* created; the cleanup inside d3x_create_workspace excludes the one at the end
\* of run; osqp_solve and the reads of the solution and info come before the
\* cleanup, on a workspace still allocated; no native block is freed twice and
\* none is read, written or freed when it is not allocated.
C19_NoDoubleCleanupNoUseAfterFree ==
  /\ Calls("osqp_cleanup") <= 1
  /\ Has(<<"osqp_cleanup", "">>) => setupOut.work # NULL
  /\ (Has(<<"osqp_cleanup", "">>) /\ setupOut.status # 0) => pc \in {"check_workspace", "returned"}
  /\ pc \in {"solve", "assign", "cleanup"} =>
       /\ Calls("osqp_cleanup") = 0
       /\ workspace.ptr \in heap
  /\ (Solved /\ Has(<<"osqp_cleanup", "">>)) =>
       Pos(trace, <<"osqp_solve", "">>) < Pos(trace, <<"osqp_cleanup", "">>)
  /\ \A b \in NativeBlocks : Count(trace, <<"c_free", b>>) <= 1
  /\ Faults = {}

C19_Witness ==
  /\ Returned /\ ~Solved
  /\ setupOut.work # NULL /\ setupOut.status # 0
  /\ Calls("osqp_cleanup") = 1
  /\ workspace.ptr = NULL
====
